---- MODULE Spec2Model ----
(***************************************************************************)
(* Model of elevation_finder.py: the USGS elevation client                 *)
(* (USGSElevationFinder.get_elevation_usgs), the batch loop                *)
(* (get_elevation_for_coordinates), the coordinate validation and the two  *)
(* Streamlit handlers that feed the batch loop (manual points, CSV file).  *)
(*                                                                         *)
(* Floats are modelled by integers (only comparisons and equality are used *)
(* by the code), sleep durations are in milliseconds, and a progress       *)
(* fraction (i+1)/total is the pair of its numerator and denominator.      *)
(***************************************************************************)
EXTENDS Integers, Sequences, FiniteSets, TLC

\* ------------------------------------------------------------------ bounds
\* Largest number of points in one batch (manual points or CSV rows).
MaxPoints == 2

\* ------------------------------------------------------- program constants
RetryCount == 3
Sentinel == -1000000
LatMin == -90
LatMax == 90
LonMin == -180
LonMax == 180
RetrySleepMs == 1000
RateLimitSleepMs == 500
HttpOk == 200

\* ------------------------------------------------------------ input domains
\* Latitudes and longitudes a user can type or a CSV file can hold: both
\* sides out of range, the zero the manual form refuses, and a valid latitude.
Lats == {LatMin - 1, 0, 45, LatMax + 1}
Lons == {LonMin - 1, 0, LonMax + 1}

\* Text of the "Point ID (optional)" field: left empty, so that every point
\* gets its own default name.
PointIdTexts == {""}

\* f"Point_{k}" for the k the model can reach.
PointName(k) ==
  CASE k = 1 -> "Point_1"
    [] k = 2 -> "Point_2"
    [] k = 3 -> "Point_3"
    [] k = 4 -> "Point_4"
    [] OTHER -> "Point_n"

\* df[id_col].astype(str) on an integer column.
AsTypeStr(k) ==
  CASE k = 1 -> "1"
    [] k = 2 -> "2"
    [] k = 3 -> "3"
    [] k = 4 -> "4"
    [] OTHER -> "k"

\* An uploaded CSV file with an id, a latitude and a longitude column: row k
\* has id k and the k-th of the given <<lat, lon>> pairs.
CsvFile(coords) ==
  [k \in 1..Len(coords) |-> [id |-> k, lat |-> coords[k][1], lon |-> coords[k][2]]]

RECURSIVE SeqsUpTo(_, _)
\* All sequences over S of length at most n.
SeqsUpTo(S, n) ==
  IF n = 0 THEN {<<>>}
  ELSE LET shorter == SeqsUpTo(S, n - 1)
       IN  shorter \cup {Append(s, x) : s \in {t \in shorter : Len(t) = n - 1}, x \in S}

\* ------------------------------------------------- the service's responses
\* The value of the 'value' field of the JSON body: a number, or a string.
NumValue(n) == [t |-> "num", n |-> n, s |-> ""]
StrValue(s) == [t |-> "str", n |-> 0, s |-> s]
NoJsonValue == [t |-> "none", n |-> 0, s |-> ""]

\* What requests.get(url, timeout=15) followed by response.json() can give:
\* a Timeout, another exception (connection error), or a response with a
\* status code and a body that parses as a JSON object or does not.
Timeout == [kind |-> "timeout", status |-> 0, json |-> FALSE, has |-> FALSE, value |-> NoJsonValue]
ConnError == [kind |-> "error", status |-> 0, json |-> FALSE, has |-> FALSE, value |-> NoJsonValue]
Http(status, json, has, value) ==
  [kind |-> "http", status |-> status, json |-> json, has |-> has, value |-> value]

Outcomes ==
  { Timeout, ConnError,
    Http(500, FALSE, FALSE, NoJsonValue),
    Http(HttpOk, FALSE, FALSE, NoJsonValue),
    Http(HttpOk, TRUE, FALSE, NoJsonValue),
    Http(HttpOk, TRUE, TRUE, NumValue(0)),
    Http(HttpOk, TRUE, TRUE, StrValue("-5")),
    Http(HttpOk, TRUE, TRUE, NumValue(Sentinel)),
    Http(HttpOk, TRUE, TRUE, StrValue("abc")) }

\* Optional[float]: None or a number.
None == [some |-> FALSE, v |-> 0]
Some(x) == [some |-> TRUE, v |-> x]

\* float(data['value']): a number converts to itself, a numeric string to the
\* number it spells, anything else raises.
FloatRaises(value) ==
  ~ (value.t = "num" \/ (value.t = "str" /\ value.s \in {"-5"}))

Float(value) ==
  IF value.t = "num" THEN value.n
  ELSE IF value.s = "-5" THEN -5
  ELSE 0

\* data['value'] != -1000000
NotSentinel(value) == ~ (value.t = "num" /\ value.n = Sentinel)

\* What an observer of the wire sees of an outcome (kept in the history of a
\* call): a timeout, no response, a non-200 response, a 200 response whose
\* body is no JSON or whose value is no number, a 200 response with no data
\* (no 'value' field, or the sentinel), a 200 response with an elevation.
OutcomeClass(o) ==
  IF o.kind = "timeout" THEN "timeout"
  ELSE IF o.kind = "error" THEN "error"
  ELSE IF o.status # HttpOk THEN "non200"
  ELSE IF ~ o.json THEN "bad200"
  ELSE IF ~ o.has \/ (o.value.t = "num" /\ o.value.n = Sentinel) THEN "nodata200"
  ELSE IF o.value.t = "str" /\ o.value.s = "abc" THEN "bad200"
  ELSE "value200"

\* --------------------------------------------------- get_elevation_usgs
\* Events of one call, in order.  A request carries the x and y query
\* parameters, a sleep its duration, a warning the point it names.
ReqEvent(lat, lon) == [e |-> "req", a |-> lon, b |-> lat]
SleepEvent(ms) == [e |-> "sleep", a |-> ms, b |-> 0]
WarnEvent(lat, lon) == [e |-> "warn", a |-> lat, b |-> lon]

\* How one pass through the body of the retry loop ends: the function
\* returns ret, or the loop goes on to the next attempt; events are what the
\* pass emitted after its request.
Return(ret, events) == [exit |-> "return", ret |-> ret, events |-> events]
Continue(events) == [exit |-> "continue", ret |-> None, events |-> events]

\* Which except clause, if any, the try block ends in.
Raised(o) ==
  IF o.kind = "timeout" THEN "timeout"
  ELSE IF o.kind = "error" THEN "other"
  ELSE IF o.status = HttpOk /\ ~ o.json THEN "other"
  ELSE IF o.status = HttpOk /\ o.has /\ NotSentinel(o.value) /\ FloatRaises(o.value)
       THEN "other"
  ELSE "none"

\* Mutant: a timeout gives up at once instead of retrying.
OnTimeout_GiveUp(attempt, lat, lon) == Return(None, <<>>)

\* except requests.exceptions.Timeout
OnTimeout(attempt, lat, lon) ==
  IF attempt < RetryCount - 1
  THEN Continue(<<SleepEvent(RetrySleepMs)>>)
  ELSE Return(None, <<>>)

\* Mutant: another exception is not retried.
OnException_NoRetry(attempt, lat, lon) == Return(None, <<WarnEvent(lat, lon)>>)

\* Mutant: the warning is emitted before the retry check.
OnException_WarnAlways(attempt, lat, lon) ==
  IF attempt < RetryCount - 1
  THEN Continue(<<WarnEvent(lat, lon), SleepEvent(RetrySleepMs)>>)
  ELSE Return(None, <<WarnEvent(lat, lon)>>)

\* except Exception
OnException(attempt, lat, lon) ==
  IF attempt < RetryCount - 1
  THEN Continue(<<SleepEvent(RetrySleepMs)>>)
  ELSE Return(None, <<WarnEvent(lat, lon)>>)

\* Mutant: the second status check (return None on a 200 without data) is
\* missing, so such a response falls through like any other.
OnResponse_RetryNoData(attempt, o) ==
  IF o.status = HttpOk /\ o.has /\ NotSentinel(o.value)
  THEN Return(Some(Float(o.value)), <<>>)
  ELSE Continue(<<>>)

\* The try block when nothing is raised: a 200 response returns its value or
\* None; any other status falls through to the end of the loop body.
OnResponse(attempt, o) ==
  IF o.status = HttpOk /\ o.has /\ NotSentinel(o.value)
  THEN Return(Some(Float(o.value)), <<>>)
  ELSE IF o.status = HttpOk
  THEN Return(None, <<>>)
  ELSE Continue(<<>>)

\* Mutant: the loop runs one pass too many.
LoopExhausted_OneMore(attempt) == attempt >= RetryCount

\* for attempt in range(retry_count): no pass follows pass number `attempt`.
LoopExhausted(attempt) == attempt + 1 >= RetryCount

\* One pass of the retry loop with outcome o of its request.
AttemptResult(attempt, o, lat, lon) ==
  CASE Raised(o) = "timeout" -> OnTimeout(attempt, lat, lon)
    [] Raised(o) = "other" -> OnException(attempt, lat, lon)
    [] OTHER -> OnResponse(attempt, o)

\* ------------------------------------------- get_elevation_for_coordinates
FetchEvent(k) == [e |-> "fetch", a |-> k, b |-> 0]
RecordEvent(k) == [e |-> "record", a |-> k, b |-> 0]
ProgressEvent(num, den) == [e |-> "progress", a |-> num, b |-> den]
RateSleepEvent == [e |-> "sleep", a |-> RateLimitSleepMs, b |-> 0]

\* elevation if elevation is not None else 'No Data'
NoData == [t |-> "str", n |-> 0, s |-> "No Data"]
ElevationFt(elevation) ==
  IF elevation # None THEN NumValue(elevation.v) ELSE NoData

\* Mutant: the truth value of the elevation instead of "is not None".
Status_Truthy(elevation) ==
  IF elevation.some /\ elevation.v # 0 THEN "Success" ELSE "Failed"

\* 'Success' if elevation is not None else 'Failed'
Status(elevation) ==
  IF elevation # None THEN "Success" ELSE "Failed"

\* point_ids[i] if point_ids else f"Point_{i+1}"   (i counts from 0)
PointIdOf(ids, k) ==
  IF ids # <<>> THEN ids[k + 1] ELSE PointName(k + 1)

ResultRow(pid, lat, lon, elevation) ==
  [point_id |-> pid, latitude |-> lat, longitude |-> lon,
   elevation_ft |-> ElevationFt(elevation), status |-> Status(elevation)]

\* Mutant: the row goes to the front of the list.
AppendResult_Prepend(rows, row) == <<row>> \o rows

\* results.append(row)
AppendResult(rows, row) == Append(rows, row)

\* Mutant: the sleep follows every point, the last one too.
RateLimit_Always(k, n) == <<RateSleepEvent>>

\* if i < total - 1: time.sleep(0.5)
RateLimit(k, n) ==
  IF k < n - 1 THEN <<RateSleepEvent>> ELSE <<>>

\* ----------------------------------------------------- validate_coordinates
\* Mutant: the longitude check is missing.
ValidateCoordinates_LatOnly(lat, lon) ==
  IF ~ (LatMin <= lat /\ lat <= LatMax)
  THEN [valid |-> FALSE, msg |-> "Latitude must be between -90 and 90"]
  ELSE [valid |-> TRUE, msg |-> ""]

ValidateCoordinates(lat, lon) ==
  IF ~ (LatMin <= lat /\ lat <= LatMax)
  THEN [valid |-> FALSE, msg |-> "Latitude must be between -90 and 90"]
  ELSE IF ~ (LonMin <= lon /\ lon <= LonMax)
  THEN [valid |-> FALSE, msg |-> "Longitude must be between -180 and 180"]
  ELSE [valid |-> TRUE, msg |-> ""]

\* ------------------------------------------------------------------- state
VARIABLES
  manual_points,  \* st.session_state.manual_points
  pc,             \* where the script is: "idle", "loop", "attempt", "returned", "done"
  mode,           \* the handler that started the running batch: "manual", "csv", ""
  df,             \* the uploaded CSV's rows, while its batch runs
  coordinates,    \* get_elevation_for_coordinates' coordinates: <<lat, lon>> pairs
  point_ids,      \* get_elevation_for_coordinates' point_ids
  i,              \* the batch loop's index, from 0
  attempt,        \* the retry loop's index, from 0
  ret,            \* what the last call of get_elevation_usgs returned
  results,        \* the batch loop's accumulator list
  final_df,       \* CSV mode's output table
  ui,             \* the last message the handlers put on the page
  calltrace,      \* history: events of the running get_elevation_usgs call
  outcomes,       \* history: the OutcomeClass of each request of that call
  batchtrace,     \* history: events of the current (or last) batch
  fetched,        \* history: for each index, what get_elevation_usgs returned
  reqTotal        \* history: requests issued by the current (or last) batch

vars == <<manual_points, pc, mode, df, coordinates, point_ids, i, attempt, ret,
          results, final_df, ui, calltrace, outcomes, batchtrace, fetched, reqTotal>>

batchVars == <<mode, df, coordinates, point_ids, i, attempt, ret, results, final_df,
               calltrace, outcomes, batchtrace, fetched, reqTotal>>

total == Len(coordinates)

\* No batch running and nothing of a batch left: the script waits for input.
NoBatch ==
  /\ mode = "" /\ df = <<>> /\ coordinates = <<>> /\ point_ids = <<>>
  /\ i = 0 /\ attempt = 0 /\ ret = None /\ results = <<>> /\ final_df = <<>>
  /\ calltrace = <<>> /\ outcomes = <<>> /\ batchtrace = <<>>
  /\ fetched = <<>> /\ reqTotal = 0

Init ==
  /\ manual_points = <<>>
  /\ pc = "idle"
  /\ ui = ""
  /\ NoBatch

\* Entry of get_elevation_for_coordinates(coords, ids): the empty accumulator,
\* the progress bar at 0, the loop at its first index.
StartBatch(m, rows, coords, ids) ==
  /\ pc' = "loop"
  /\ mode' = m
  /\ df' = rows
  /\ coordinates' = coords
  /\ point_ids' = ids
  /\ i' = 0
  /\ results' = <<>>
  /\ batchtrace' = <<ProgressEvent(0, 1)>>
  /\ fetched' = [k \in 1..Len(coords) |-> None]
  /\ reqTotal' = 0
  /\ UNCHANGED <<attempt, ret, final_df, calltrace, outcomes>>

\* -------------------------------------------------------- manual_input_mode
\* pid = point_id if point_id else f"Point_{len(manual_points)+1}"
ManualPid(text) ==
  IF text # "" THEN text ELSE PointName(Len(manual_points) + 1)

\* The "Add Point" button.
AddPoint(text, lat, lon) ==
  /\ pc = "idle"
  /\ LET v == ValidateCoordinates(lat, lon) IN
       IF ~ v.valid
       THEN /\ ui' = v.msg
            /\ UNCHANGED manual_points
       ELSE IF lat = 0 /\ lon = 0
       THEN /\ ui' = "Please enter non-zero coordinates"
            /\ UNCHANGED manual_points
       ELSE /\ Len(manual_points) < MaxPoints
            /\ manual_points' = Append(manual_points,
                 [point_id |-> ManualPid(text), latitude |-> lat, longitude |-> lon])
            /\ ui' = "Added"
  /\ UNCHANGED <<pc, batchVars>>

\* The "Clear All" button.
ClearAll ==
  /\ pc = "idle"
  /\ manual_points' = <<>>
  /\ ui' = ""
  /\ UNCHANGED <<pc, batchVars>>

\* The "Get Elevations for All Points" button, shown while there are points.
GetElevations ==
  /\ pc = "idle"
  /\ manual_points # <<>>
  /\ StartBatch("manual", <<>>,
       [k \in 1..Len(manual_points) |->
          <<manual_points[k].latitude, manual_points[k].longitude>>],
       [k \in 1..Len(manual_points) |-> manual_points[k].point_id])
  /\ ui' = "Processing elevations..."
  /\ UNCHANGED manual_points

\* ----------------------------------------------------------- csv_upload_mode
\* pd.read_csv raises on a malformed file.
CsvReadError ==
  /\ pc = "idle"
  /\ ui' = "Error reading CSV file"
  /\ UNCHANGED <<manual_points, pc, batchVars>>

\* The same column selected for latitude and longitude.
CsvSameColumns ==
  /\ pc = "idle"
  /\ ui' = "Latitude and Longitude columns cannot be the same!"
  /\ UNCHANGED <<manual_points, pc, batchVars>>

\* invalid_coords: the rows validate_coordinates refuses.
InvalidCoords(rows) ==
  {k \in 1..Len(rows) : ~ ValidateCoordinates(rows[k].lat, rows[k].lon).valid}

\* The "Process Elevations" button on an uploaded file with rows `rows`.
CsvProcess(rows) ==
  /\ pc = "idle"
  /\ IF InvalidCoords(rows) # {}
     THEN /\ ui' = "Invalid coordinates found:"
          /\ UNCHANGED <<pc, batchVars>>
     ELSE /\ StartBatch("csv", rows,
               [k \in 1..Len(rows) |-> <<rows[k].lat, rows[k].lon>>],
               [k \in 1..Len(rows) |-> AsTypeStr(rows[k].id)])
          /\ ui' = "Processing locations..."
  /\ UNCHANGED manual_points

\* ------------------------------------- get_elevation_for_coordinates: loop
lat == coordinates[i + 1][1]
lon == coordinates[i + 1][2]

\* The loop takes index i and calls get_elevation_usgs(lat, lon).
LoopFetch ==
  /\ pc = "loop"
  /\ i < total
  /\ pc' = "attempt"
  /\ attempt' = 0
  /\ batchtrace' = Append(batchtrace, FetchEvent(i))
  /\ UNCHANGED <<manual_points, mode, df, coordinates, point_ids, i, ret, results,
                 final_df, ui, calltrace, outcomes, fetched, reqTotal>>

\* One pass of get_elevation_usgs' retry loop: the request, its outcome o, and
\* what the pass does with it.  The call returns from inside the pass, or by
\* the return None after the loop when the last pass falls through (r.ret is
\* None then).
Attempt(o) ==
  /\ pc = "attempt"
  /\ LET r == AttemptResult(attempt, o, lat, lon) IN
       /\ calltrace' = Append(calltrace, ReqEvent(lat, lon)) \o r.events
       /\ outcomes' = Append(outcomes, OutcomeClass(o))
       /\ reqTotal' = reqTotal + 1
       /\ IF r.exit = "return" \/ LoopExhausted(attempt)
          THEN /\ pc' = "returned"
               /\ ret' = r.ret
               /\ fetched' = [fetched EXCEPT ![i + 1] = r.ret]
               /\ attempt' = 0
          ELSE /\ attempt' = attempt + 1
               /\ UNCHANGED <<pc, ret, fetched>>
  /\ UNCHANGED <<manual_points, mode, df, coordinates, point_ids, i, results,
                 final_df, ui, batchtrace>>

\* The rest of the loop body after the call returned: the row, the progress
\* bar, the rate-limiting sleep.
Record ==
  /\ pc = "returned"
  /\ results' = AppendResult(results, ResultRow(PointIdOf(point_ids, i), lat, lon, ret))
  /\ batchtrace' = batchtrace \o <<RecordEvent(i), ProgressEvent(i + 1, total)>>
                              \o RateLimit(i, total)
  /\ i' = i + 1
  /\ pc' = "loop"
  /\ calltrace' = <<>>
  /\ outcomes' = <<>>
  /\ UNCHANGED <<manual_points, mode, df, coordinates, point_ids, attempt, ret,
                 final_df, ui, fetched, reqTotal>>

\* final_df = df.copy() with result_df's elevation_ft and status columns, by
\* position.
MergeRow(row, res) ==
  [id |-> row.id, lat |-> row.lat, lon |-> row.lon,
   elevation_ft |-> res.elevation_ft, status |-> res.status]

\* The loop is over: pd.DataFrame(results) goes back to the handler, which
\* shows it.  An empty list makes a frame without columns, so CSV mode's
\* result_df['elevation_ft'] raises KeyError and the handler reports it.
Finish ==
  /\ pc = "loop"
  /\ i = total
  /\ pc' = "done"
  /\ IF mode = "csv"
     THEN IF results = <<>>
          THEN /\ ui' = "Error processing file"
               /\ UNCHANGED final_df
          ELSE /\ ui' = "Processing Complete!"
               /\ final_df' = [k \in 1..Len(df) |-> MergeRow(df[k], results[k])]
     ELSE /\ ui' = "Results"
          /\ UNCHANGED final_df
  /\ UNCHANGED <<manual_points, mode, df, coordinates, point_ids, i, attempt, ret,
                 results, calltrace, outcomes, batchtrace, fetched, reqTotal>>

\* The script run ends: its locals are gone, the session state stays.
ScriptEnd ==
  /\ pc = "done"
  /\ pc' = "idle"
  /\ mode' = "" /\ df' = <<>> /\ coordinates' = <<>> /\ point_ids' = <<>>
  /\ i' = 0 /\ attempt' = 0 /\ ret' = None /\ results' = <<>> /\ final_df' = <<>>
  /\ calltrace' = <<>> /\ outcomes' = <<>> /\ batchtrace' = <<>>
  /\ fetched' = <<>> /\ reqTotal' = 0
  /\ UNCHANGED <<manual_points, ui>>

Next ==
  \/ \E text \in PointIdTexts, la \in Lats, lo \in Lons : AddPoint(text, la, lo)
  \/ ClearAll
  \/ GetElevations
  \/ CsvReadError
  \/ CsvSameColumns
  \/ \E coords \in SeqsUpTo(Lats \X Lons, MaxPoints) : CsvProcess(CsvFile(coords))
  \/ LoopFetch
  \/ \E o \in Outcomes : Attempt(o)
  \/ Record
  \/ Finish
  \/ ScriptEnd

Spec == Init /\ [][Next]_vars

\* =================================================================== claims
\* Helpers over the histories.
Positions(tr, kind) == {k \in 1..Len(tr) : tr[k].e = kind}
ReqCount == Cardinality(Positions(calltrace, "req"))
AllTimeouts == outcomes # <<>> /\ \A k \in 1..Len(outcomes) : outcomes[k] = "timeout"
\* An attempt that ended in an exception other than a timeout: no response at
\* all, or a 200 response whose body json() or float() cannot take.
OtherException(c) == c \in {"error", "bad200"}
InRange(la, lo) == la >= -90 /\ la <= 90 /\ lo >= -180 /\ lo <= 180

\* ---- C1
\* C1 as stated: an attempt that fails with an exception other than a timeout
\* is the last request of the call, which returns absent at once.
C1_NonTimeoutFailureNeverRetried ==
  \A k \in 1..Len(outcomes) :
    OtherException(outcomes[k]) => k = Len(outcomes) /\ pc = "returned" /\ ret = None

\* C1 (amended): an exception other than a timeout is retried like a timeout
\* while attempts remain (the call has not returned at that attempt), and only
\* on the final attempt makes the call return absent with no further request;
\* every retry follows a timeout, another exception or a non-200 response.
C1_NonTimeoutFailureRetriedUntilLast ==
  /\ \A k \in 1..Len(outcomes) :
       OtherException(outcomes[k]) =>
         IF k < RetryCount
         THEN Len(outcomes) > k \/ (pc = "attempt" /\ attempt = k)
         ELSE k = Len(outcomes) /\ pc = "returned" /\ ret = None
  /\ \A k \in 1..(Len(outcomes) - 1) :
       outcomes[k] \in {"timeout", "error", "bad200", "non200"}

C1_Witness ==
  /\ pc = "returned"
  /\ Len(outcomes) = RetryCount
  /\ outcomes[1] = "error"
  /\ outcomes[RetryCount] = "bad200"

\* ---- C2
C2_Returned ==
  (pc = "returned" /\ AllTimeouts) =>
    /\ Len(outcomes) = RetryCount
    /\ ReqCount = RetryCount
    /\ ret = None

C2_Row ==
  (pc = "returned" /\ AllTimeouts) =>
    /\ Len(results') = Len(results) + 1
    /\ results'[Len(results')].point_id = point_ids[i + 1]
    /\ results'[Len(results')].status = "Failed"
    /\ results'[Len(results')].elevation_ft = NoData

\* C2: when every attempt for a point times out, the call has issued exactly
\* 3 requests and returns absent, and the step that follows records for that
\* point a row with status 'Failed' and elevation_ft 'No Data'.
C2_AllTimeoutsFail == [] C2_Returned /\ [][C2_Row]_vars

C2_Witness ==
  /\ pc = "returned"
  /\ AllTimeouts
  /\ Len(outcomes) = RetryCount
  /\ ret = None
  /\ i = 1

\* ---- C3
\* C3: an attempt that gets a 200 response with the sentinel or without a
\* 'value' field is the last request of the call: the call has returned
\* absent, and nothing (no sleep, no request) follows that request.
C3_NoDataReturnsAtOnce ==
  \A k \in 1..Len(outcomes) :
    outcomes[k] = "nodata200" =>
      /\ k = Len(outcomes)
      /\ pc = "returned"
      /\ ret = None
      /\ ReqCount = k
      /\ calltrace[Len(calltrace)].e = "req"

C3_Witness ==
  /\ pc = "returned"
  /\ outcomes = <<"nodata200">>
  /\ Len(calltrace) = 1

\* ---- C4
\* C4: no request is ever issued for a coordinate out of range: every request
\* of a call, every coordinate of a batch and every manual point is in range,
\* and a handler that reports an invalid coordinate starts no batch.
C4_NoRequestForInvalid ==
  /\ \A k \in Positions(calltrace, "req") : InRange(calltrace[k].b, calltrace[k].a)
  /\ \A k \in 1..Len(coordinates) : InRange(coordinates[k][1], coordinates[k][2])
  /\ \A k \in 1..Len(manual_points) :
       InRange(manual_points[k].latitude, manual_points[k].longitude)
  /\ ui \in {"Invalid coordinates found:", "Latitude must be between -90 and 90",
             "Longitude must be between -180 and 180"}
       => pc = "idle" /\ coordinates = <<>> /\ reqTotal = 0 /\ calltrace = <<>>

C4_Witness ==
  /\ ui = "Invalid coordinates found:"
  /\ pc = "idle"
  /\ Len(manual_points) = 1

\* ---- C5
\* C5: the rows recorded so far are, in order, those of the first inputs: row
\* k carries point id, latitude and longitude of input k and the elevation the
\* call for input k returned; a finished batch has one row per input; CSV
\* mode's output table has, in row k, the columns of input row k with the
\* elevation_ft and status of input k.
C5_RowsMatchInputs ==
  /\ Len(results) <= Len(coordinates)
  /\ \A k \in 1..Len(results) :
       /\ results[k].point_id = point_ids[k]
       /\ results[k].latitude = coordinates[k][1]
       /\ results[k].longitude = coordinates[k][2]
       /\ results[k].elevation_ft =
            IF fetched[k].some THEN NumValue(fetched[k].v) ELSE NoData
  /\ pc = "done" => Len(results) = Len(coordinates)
  /\ (pc = "done" /\ mode = "csv" /\ final_df # <<>>) =>
       /\ Len(final_df) = Len(df)
       /\ \A k \in 1..Len(df) :
            /\ final_df[k].id = df[k].id
            /\ final_df[k].lat = df[k].lat
            /\ final_df[k].lon = df[k].lon
            /\ final_df[k].elevation_ft =
                 IF fetched[k].some THEN NumValue(fetched[k].v) ELSE NoData
            /\ final_df[k].status = IF fetched[k].some THEN "Success" ELSE "Failed"

C5_Witness ==
  /\ pc = "done"
  /\ mode = "csv"
  /\ Len(final_df) = 2
  /\ fetched[1] = None
  /\ fetched[2] = Some(0)
  /\ coordinates[1] # coordinates[2]

\* ---- C6
\* C6: the call holds a warning exactly when it has returned from its final
\* (third) attempt and that attempt raised an exception other than a timeout;
\* there is then exactly one, it names the point of the call, and the call
\* returned absent.
C6_WarningOnlyOnFinalException ==
  LET warns == Positions(calltrace, "warn") IN
    /\ Cardinality(warns) =
         IF /\ pc = "returned"
            /\ Len(outcomes) = RetryCount
            /\ OtherException(outcomes[RetryCount])
         THEN 1 ELSE 0
    /\ \A k \in warns :
         /\ calltrace[k].a = coordinates[i + 1][1]
         /\ calltrace[k].b = coordinates[i + 1][2]
         /\ k = Len(calltrace)
         /\ ret = None

C6_Witness ==
  /\ pc = "returned"
  /\ outcomes = <<"error", "bad200", "error">>
  /\ Positions(calltrace, "warn") = {Len(calltrace)}

\* ---- C7
RECURSIVE ExpectedTrace(_, _)
\* The events of the first k points of a batch of n, after the progress bar's
\* creation at 0: fetch, record, progress (j+1)/n, and a sleep of 0.5 unless j
\* is the last index.
ExpectedTrace(k, n) ==
  IF k = 0 THEN <<ProgressEvent(0, 1)>>
  ELSE ExpectedTrace(k - 1, n)
         \o <<FetchEvent(k - 1), RecordEvent(k - 1), ProgressEvent(k, n)>>
         \o (IF k - 1 < n - 1 THEN <<[e |-> "sleep", a |-> 500, b |-> 0]>> ELSE <<>>)

\* C7: the batch's events are those of the points in input order; while a
\* call for point i runs, the rows of all earlier points are recorded and
\* none later; a finished batch of n >= 1 points slept n-1 times, not after
\* the last point, and its progress rose strictly and ended at 1.
C7_BatchTraceInOrder ==
  /\ pc = "loop" => batchtrace = ExpectedTrace(i, total)
  /\ pc \in {"attempt", "returned"} =>
       /\ batchtrace = Append(ExpectedTrace(i, total), FetchEvent(i))
       /\ Len(results) = i
  /\ (pc = "done" /\ total >= 1) =>
       LET prog == Positions(batchtrace, "progress") IN
         /\ batchtrace = ExpectedTrace(total, total)
         /\ Cardinality(Positions(batchtrace, "sleep")) = total - 1
         /\ batchtrace[Len(batchtrace)] = ProgressEvent(total, total)
         /\ \A p, q \in prog :
              p < q => batchtrace[p].a * batchtrace[q].b < batchtrace[q].a * batchtrace[p].b

C7_Witness ==
  /\ pc = "done"
  /\ total = 2
  /\ Cardinality(Positions(batchtrace, "sleep")) = 1

\* ---- C8
\* C8 as stated: between two consecutive requests of a call lies exactly one
\* sleep of 1 time unit, whatever made the call retry, and no sleep follows
\* the last attempt of a call that has returned.
C8_SleepBetweenRequests ==
  LET reqs == Positions(calltrace, "req") IN
    /\ \A p, q \in reqs :
         (p < q /\ ~ \E m \in reqs : p < m /\ m < q) =>
           (q = p + 2 /\ calltrace[p + 1] = SleepEvent(1000))
    /\ pc = "returned" => calltrace[Len(calltrace)].e # "sleep"

\* ---- C9
\* C9 as stated: a call issues at most 3 requests and at least 1 before it
\* returns, no request follows an attempt that received an HTTP 200 response,
\* and a batch of n points issues at most 3n requests.
C9_NoRequestAfterAny200 ==
  /\ Len(outcomes) <= RetryCount
  /\ ReqCount = Len(outcomes)
  /\ pc = "returned" => Len(outcomes) >= 1
  /\ pc = "attempt" => attempt < RetryCount /\ Len(outcomes) = attempt
  /\ \A k \in 1..Len(outcomes) :
       outcomes[k] \in {"bad200", "nodata200", "value200"} => k = Len(outcomes)
  /\ reqTotal <= RetryCount * total

\* C9 (amended): as stated, but the attempt after which no request follows is
\* one that received an HTTP 200 response whose body was accepted (a JSON
\* body with a numeric value, the sentinel or no 'value' field); a 200
\* response whose body json() or float() rejects is retried like any other
\* exception.
C9_BoundedRequests ==
  /\ Len(outcomes) <= RetryCount
  /\ ReqCount = Len(outcomes)
  /\ pc = "returned" => Len(outcomes) >= 1
  /\ pc = "attempt" => attempt < RetryCount /\ Len(outcomes) = attempt
  /\ \A k \in 1..Len(outcomes) :
       outcomes[k] \in {"nodata200", "value200"} => k = Len(outcomes) /\ pc = "returned"
  /\ reqTotal <= RetryCount * total

C9_Witness ==
  /\ pc = "returned"
  /\ outcomes = <<"bad200", "non200", "value200">>
  /\ total = 2
  /\ reqTotal = RetryCount * total

\* ---- C10
\* C10: in every row, status is 'Success' exactly when the call returned a
\* number and 'Failed' exactly when elevation_ft is 'No Data'; a returned
\* number, 0 and negative ones included, is recorded as such with 'Success'.
C10_StatusMatchesElevation ==
  \A k \in 1..Len(results) :
    /\ results[k].status \in {"Success", "Failed"}
    /\ results[k].status = "Success" <=> fetched[k].some
    /\ results[k].status = "Failed" <=> results[k].elevation_ft = NoData
    /\ fetched[k].some => results[k].elevation_ft = NumValue(fetched[k].v)

C10_Witness ==
  /\ Len(results) = 2
  /\ fetched[1] = Some(0) /\ results[1].status = "Success"
  /\ fetched[2] = Some(-5) /\ results[2].status = "Success"

====
